---- MODULE Spec2Model ----
(***************************************************************************)
(* Model of the analysis job orchestrator of the AI-detection platform:    *)
(*   - the analyze-content edge function                                   *)
(*       (supabase/functions/analyze-content/index.ts),                    *)
(*   - the two tables of the migration (analyses, analysis_results),       *)
(*   - the upload client that creates a job (UploadSection.handleAnalyze), *)
(*   - the polling view (AnalysisView.loadAnalysis).                       *)
(* The store is shared; every awaited store call of a handler is one       *)
(* atomic step, and handlers, client and view interleave freely.           *)
(***************************************************************************)
EXTENDS Integers, Sequences, FiniteSets, TLC

\* ------------------------------------------------------------------ bounds
MaxJobs == 1          \* Spec: jobs created
MaxInvocations == 1   \* Spec: invocations of analyze-content
WideJobs == 2         \* WideSpec: jobs created
WideInvocations == 2  \* WideSpec: invocations of analyze-content
MaxFaults == 1        \* store calls that return an error (outage)
MaxLen == 5           \* longest result list given to the aggregators
RandomSteps == 8000   \* Math.random() yields k / RandomSteps, 0 <= k < RandomSteps
MaxFiles == 2         \* AppSpec: distinct files the user picks
MaxRuns == 2          \* AppSpec: calls of analyze()
MaxHashLen == 9       \* HashSpec: digits of a hash (a SHA-256 digest has 64)

JobIds == 1..WideJobs
Invocations == 1..WideInvocations

\* ------------------------------------------------------ program constants
Missing == ""         \* an absent / falsy string field of the request
NoId == 0             \* an absent analysisId; also "no job"
NULL == 0             \* SQL NULL of completed_at

AI_MODELS ==
  << [name |-> "DeepFake Detector Pro",      version |-> "v2.1", specialty |-> "deepfake"],
     [name |-> "SynthImage Analyzer",        version |-> "v1.8", specialty |-> "ai_generated"],
     [name |-> "MediaAuth Validator",        version |-> "v3.0", specialty |-> "authentic"],
     [name |-> "Neural Pattern Recognition", version |-> "v2.5", specialty |-> "ai_generated"] >>

RegistrySize == Len(AI_MODELS)

Terminal == {"completed", "failed"}

\* ------------------------------------------------------------------- state
VARIABLES
  analyses,          \* table analyses: job id -> row, or NoRow
  analysis_results,  \* table analysis_results: set of rows
  pc,                \* per invocation: "idle", "loop", "done"
  req,               \* per invocation: the parsed request body
  i,                 \* per invocation: registry entries processed so far
  results,           \* per invocation: the local results array
  response,          \* per invocation: the HTTP response
  faults,            \* store calls that have returned an error so far
  rnd,               \* the Math.random() draws, per registry entry
  viewId,            \* AnalysisView: the analysisId prop (NoId: not shown)
  poll,              \* AnalysisView: the loadAnalysis call in flight
  analysis,          \* AnalysisView: state `analysis`
  viewResults,       \* AnalysisView: state `results`
  isLoading,         \* AnalysisView: state `isLoading`
  aggIn,             \* aggregator harness: the result list
  aggOut,            \* aggregator harness: the computed verdicts
  appFile,           \* App: state `file` (NoFile: null)
  appStatus,         \* App: state `status`
  appErrorMsg,       \* App: state `errorMsg` ("": null)
  appAnalysis,       \* App: state `analysis` (NoAnalysis: null)
  runs,              \* App: per call of analyze(), its position and closure
  hashIn,            \* scoreFromHash harness: the hash, a list of hex digits
  hashOut            \* scoreFromHash harness: the score and the label

storeVars == <<analyses, analysis_results, faults, rnd>>
handlerVars == <<pc, req, i, results, response>>
viewVars == <<viewId, poll, analysis, viewResults, isLoading>>
aggVars == <<aggIn, aggOut>>
appVars == <<appFile, appStatus, appErrorMsg, appAnalysis, runs, hashIn, hashOut>>
vars == <<analyses, analysis_results, pc, req, i, results, response, faults, rnd,
          viewId, poll, analysis, viewResults, isLoading, aggIn, aggOut,
          appFile, appStatus, appErrorMsg, appAnalysis, runs, hashIn, hashOut>>

NoRow == [id |-> NoId, status |-> "none", completed_at |-> NULL]
NoResponse == [status |-> 0]
NoPoll == [pc |-> "idle", id |-> NoId]

\* The request bodies the endpoint is called with: complete ones, and one
\* with each required field absent.
Requests(jobs) ==
  { [analysisId |-> j, fileUrl |-> "blob:1", fileType |-> "image"] : j \in jobs }
  \cup { [analysisId |-> NoId, fileUrl |-> "blob:1", fileType |-> "image"],
         [analysisId |-> 1, fileUrl |-> Missing, fileType |-> "image"],
         [analysisId |-> 1, fileUrl |-> "blob:1", fileType |-> Missing] }

\* --------------------------------------------------- App.tsx: constants
HeadLen == 8          \* hashHex.slice(0, 8)

Runs == 1..MaxRuns

\* The files the user picks: an id for the content, and the MIME type
\* family validateAndSet looks at.
Files == [id : 1..MaxFiles, type : {"image", "audio", "video"}]

NoFile == [id |-> 0, type |-> Missing]
NoAnalysis == [kind |-> Missing, aiScore |-> 0, label |-> Missing, hashHex |-> << >>]
NoRun == [pc |-> "idle", file |-> NoFile]

\* The hex digits the hashes are built from.
HexDigits == {0, 9, 15}

\* ------------------------------------------------------- pure functions
\* Numbers with two decimals (confidenceScore, averageConfidence) are held
\* in hundredths.  A JavaScript number is a record: NaN, or a value.
NaN == [nan |-> TRUE, v |-> 0]
Number(n) == [nan |-> FALSE, v |-> n]

\* Math.round(num / den) for num >= 0, den > 0: floor(num / den + 1/2).
Round(num, den) == (2 * num + den) \div (2 * den)

\* Variant of ConfidenceScore: the draw is scaled by 50 instead of 40.
ConfidenceScore_scaled50(k) == Round((k * 50 + 60 * RandomSteps) * 100, RandomSteps)

\* Lines 52 and 87: Math.round((Math.random() * 40 + 60) * 100) / 100 for
\* the draw k / RandomSteps, in hundredths.
ConfidenceScore(k) == Round((k * 40 + 60 * RandomSteps) * 100, RandomSteps)

\* Variant of simulateModelAnalysis: a flagged result of a model that is
\* not the deepfake one is typed "synthetic".
simulateModelAnalysis_synthetic(modelInfo, fileType, rndAi, k) ==
  [ modelName |-> modelInfo.name,
    modelVersion |-> modelInfo.version,
    isAiGenerated |-> rndAi,
    confidenceScore |-> ConfidenceScore(k),
    detectionType |-> IF rndAi
                        THEN (IF modelInfo.specialty = "deepfake"
                                THEN "deepfake" ELSE "synthetic")
                        ELSE "authentic" ]

\* Variant of simulateModelAnalysis: a flagged result is typed by the
\* specialty of the model, whatever it is.
simulateModelAnalysis_bySpecialty(modelInfo, fileType, rndAi, k) ==
  [ modelName |-> modelInfo.name,
    modelVersion |-> modelInfo.version,
    isAiGenerated |-> rndAi,
    confidenceScore |-> ConfidenceScore(k),
    detectionType |-> IF rndAi THEN modelInfo.specialty ELSE "authentic" ]

\* simulateModelAnalysis: the Math.random() draw of the confidence is k,
\* the outcome of the draw compared with 0.5 is rndAi; detectionType
\* follows from rndAi.
simulateModelAnalysis(modelInfo, fileType, rndAi, k) ==
  [ modelName |-> modelInfo.name,
    modelVersion |-> modelInfo.version,
    isAiGenerated |-> rndAi,
    confidenceScore |-> ConfidenceScore(k),
    detectionType |-> IF rndAi
                        THEN (IF modelInfo.specialty = "deepfake"
                                THEN "deepfake" ELSE "ai_generated")
                        ELSE "authentic" ]

\* Variant of CountAi: the filter keeps the results that are not flagged.
CountAi_negated(rs) == Cardinality({ k \in DOMAIN rs : ~rs[k].isAiGenerated })

\* results.filter((r) => r.isAiGenerated).length
CountAi(rs) == Cardinality({ k \in DOMAIN rs : rs[k].isAiGenerated })

\* Variant of MoreThanHalf: an inclusive majority (>= instead of >).
MoreThanHalf_inclusive(a, n) == 2 * a >= n

\* a > n / 2 over the reals (JavaScript number division)
MoreThanHalf(a, n) == 2 * a > n

\* results.reduce((sum, r) => sum + r.confidenceScore, 0), in hundredths
RECURSIVE SumConfidence(_)
SumConfidence(rs) ==
  IF rs = << >> THEN 0 ELSE Head(rs).confidenceScore + SumConfidence(Tail(rs))

\* Variant of AverageConfidence: the sum is not divided by the length.
AverageConfidence_noDivision(rs) ==
  IF Len(rs) = 0 THEN NaN ELSE Number(Round(SumConfidence(rs), 1))

\* Lines 152-153 and 162: Math.round((sum / results.length) * 100) / 100;
\* for the empty list the quotient is 0 / 0 = NaN, and so is the result.
AverageConfidence(rs) ==
  IF Len(rs) = 0 THEN NaN ELSE Number(Round(SumConfidence(rs), Len(rs)))

\* The summary of the 200 response.
Summary(rs) ==
  [ totalModels |-> Len(rs),
    aiGeneratedCount |-> CountAi(rs),
    authenticCount |-> Len(rs) - CountAi(rs),
    averageConfidence |-> AverageConfidence(rs),
    overallVerdict |-> IF MoreThanHalf(CountAi(rs), Len(rs))
                         THEN "Likely AI Generated"
                         ELSE "Likely Authentic" ]

\* results.reduce((sum, r) => sum + r.confidence_score, 0) of the view
RECURSIVE SumConfidenceScore(_)
SumConfidenceScore(rows) ==
  IF rows = << >> THEN 0
  ELSE Head(rows).confidence_score + SumConfidenceScore(Tail(rows))

\* AnalysisView.getOverallVerdict over the rows read from the store
\* (a sequence of rows).  The view does not round its mean: confidence is
\* the fraction num / den of hundredths.
getOverallVerdict(rows) ==
  IF Len(rows) = 0 THEN [verdict |-> "null"]
  ELSE LET aiCount == Cardinality({ k \in DOMAIN rows : rows[k].is_ai_generated })
           isAiGenerated == MoreThanHalf(aiCount, Len(rows))
       IN [ verdict |-> IF isAiGenerated THEN "AI-Generated Content Detected"
                                         ELSE "Likely Authentic Content",
            confidence |-> [num |-> SumConfidenceScore(rows), den |-> Len(rows)],
            aiCount |-> aiCount,
            totalCount |-> Len(rows),
            color |-> IF isAiGenerated THEN "red" ELSE "green" ]

\* HistoryView.getVerdict (part_002 lines 359-368) over the rows read
\* from the store; null for no rows.
getVerdict(rows) ==
  IF Len(rows) = 0 THEN [null |-> TRUE, isAiGenerated |-> FALSE, aiCount |-> 0, total |-> 0]
  ELSE LET aiCount == Cardinality({ k \in DOMAIN rows : rows[k].is_ai_generated })
       IN [ null |-> FALSE,
            isAiGenerated |-> MoreThanHalf(aiCount, Len(rows)),
            aiCount |-> aiCount,
            total |-> Len(rows) ]

\* --------------------------------------------------------------- the store
Exists(j) == analyses[j].status # "none"

ResultsOf(j) == { r \in analysis_results : r.analysis_id = j }

\* A set of rows as the list a select returns.
RECURSIVE RowList(_)
RowList(S) ==
  IF S = {} THEN << >>
  ELSE LET r == CHOOSE x \in S : TRUE IN <<r>> \o RowList(S \ {r})

\* StatsView.loadStats (lines 21-67), the counters it sets when it reads
\* the two tables in the current state: the analyses with status
\* completed, and all rows of analysis_results.
loadStats ==
  LET completed == { j \in JobIds : analyses[j].status = "completed" }
      aiDetectedCount ==
        Cardinality({ r.analysis_id : r \in { x \in analysis_results : x.is_ai_generated } })
  IN [ totalAnalyses |-> Cardinality(completed),
       aiDetected |-> aiDetectedCount,
       authentic |-> Cardinality(completed) - aiDetectedCount ]

\* The row the handler inserts for a result (index.ts 130-138); `by` stands
\* for the generated primary key: one per invocation and registry entry.
ResultRow(h, j, m, result) ==
  [ analysis_id |-> j,
    model |-> m,
    model_name |-> result.modelName,
    model_version |-> result.modelVersion,
    is_ai_generated |-> result.isAiGenerated,
    confidence_score |-> result.confidenceScore,
    detection_type |-> result.detectionType,
    by |-> h ]

\* A store call may return an error instead of taking effect.
CanFail == faults < MaxFaults

\* The confidence draws the aggregators are explored with: both ends of
\* the range of Math.random() and its middle.
ConfidenceDraws == {0, RandomSteps \div 2, RandomSteps - 1}

\* A run of draws: per registry entry the outcome of Math.random() > 0.5
\* (index.ts 53) and the draw of the confidence (index.ts 52).
Draws(ais, ks) == [m \in DOMAIN ais |-> [ai |-> ais[m], k |-> ks[m]]]

\* The draws the runs are explored with: two of four flagged, and three
\* of four flagged, with confidence draws from both ends of the range.
RndStreams ==
  { Draws(<<TRUE, TRUE, FALSE, FALSE>>, <<0, RandomSteps - 1, RandomSteps \div 2, 1>>),
    Draws(<<FALSE, TRUE, TRUE, TRUE>>, <<RandomSteps - 1, RandomSteps - 2, 0, RandomSteps \div 4>>) }

Init ==
  /\ analyses = [j \in JobIds |-> NoRow]
  /\ analysis_results = {}
  /\ pc = [h \in Invocations |-> "idle"]
  /\ req = [h \in Invocations |-> [analysisId |-> NoId, fileUrl |-> Missing, fileType |-> Missing]]
  /\ i = [h \in Invocations |-> 0]
  /\ results = [h \in Invocations |-> << >>]
  /\ response = [h \in Invocations |-> NoResponse]
  /\ faults = 0
  /\ rnd \in RndStreams
  /\ viewId = NoId
  /\ poll = NoPoll
  /\ analysis = NoRow
  /\ viewResults = {}
  /\ isLoading = TRUE
  /\ aggIn = << >>
  /\ aggOut = << >>
  /\ appFile = NoFile
  /\ appStatus = "idle"
  /\ appErrorMsg = Missing
  /\ appAnalysis = NoAnalysis
  /\ runs = [r \in Runs |-> NoRun]
  /\ hashIn = << >>
  /\ hashOut = << >>

\* ----------------------------------------------- analyze-content handler
\* Variant of MissingFields: the fileType check is left out.
MissingFields_noFileType(r) ==
  r.analysisId = NoId \/ r.fileUrl = Missing

\* The validation of index.ts 109: a falsy field rejects the request.
MissingFields(r) ==
  r.analysisId = NoId \/ r.fileUrl = Missing \/ r.fileType = Missing

\* The instant at which invocation h evaluates new Date() (index.ts 147);
\* distinct invocations complete at distinct instants.
Timestamp(h) == h

\* Variant of UpdateStatus: the update has no .eq("id", j) filter and
\* changes every row of the table.
UpdateStatus_noEq(j, st, at) ==
  [b \in JobIds |-> IF analyses[b].status # "none"
                      THEN [id |-> b, status |-> st, completed_at |-> at]
                      ELSE analyses[b]]

\* .update(fields).eq("id", j): changes the row of j when there is one.
UpdateStatus(j, st, at) ==
  IF Exists(j)
    THEN [analyses EXCEPT ![j] = [id |-> j, status |-> st, completed_at |-> at]]
    ELSE analyses

\* Lines 94-122: parse the body, validate, mark the job processing.
\* Invocation slots are taken in order.
Receive(h, r) ==
  /\ pc[h] = "idle"
  /\ \A g \in Invocations : g < h => pc[g] # "idle"
  /\ req' = [req EXCEPT ![h] = r]
  /\ IF MissingFields(r)
       THEN /\ pc' = [pc EXCEPT ![h] = "done"]
            /\ response' = [response EXCEPT ![h] = [status |-> 400, error |-> "Missing required fields"]]
            /\ UNCHANGED <<analyses, faults>>
       ELSE /\ pc' = [pc EXCEPT ![h] = "loop"]
            /\ response' = response
            /\ \/ /\ analyses' = UpdateStatus(r.analysisId, "processing", analyses[r.analysisId].completed_at)
                  /\ faults' = faults
               \/ /\ CanFail
                  /\ faults' = faults + 1
                  /\ analyses' = analyses
  /\ UNCHANGED <<analysis_results, rnd, i, results, viewVars, aggVars, appVars>>

\* Variant of RunModel: the row is written with an upsert keyed by the
\* job and the registry entry, which replaces the row another invocation
\* has persisted for that entry.
RunModel_upsert(h) ==
  /\ pc[h] = "loop"
  /\ i[h] < RegistrySize
  /\ LET m == i[h] + 1
         j == req[h].analysisId
         result == simulateModelAnalysis(AI_MODELS[m], req[h].fileType, rnd[m].ai, rnd[m].k)
     IN /\ results' = [results EXCEPT ![h] = Append(@, result)]
        /\ \/ /\ Exists(j)
              /\ analysis_results' =
                   { r \in analysis_results : ~(r.analysis_id = j /\ r.model = m) }
                   \cup {ResultRow(h, j, m, result)}
              /\ faults' = faults
           \/ /\ ~Exists(j)
              /\ UNCHANGED <<analysis_results, faults>>
           \/ /\ Exists(j)
              /\ CanFail
              /\ faults' = faults + 1
              /\ analysis_results' = analysis_results
  /\ i' = [i EXCEPT ![h] = @ + 1]
  /\ UNCHANGED <<analyses, rnd, pc, req, response, viewVars, aggVars, appVars>>

\* Lines 126-141, one iteration: run the model, push the result, insert
\* the row (the returned error is not inspected), wait.
\* The insert takes effect unless the store returns an error: an outage,
\* or the foreign key when the job row does not exist.
RunModel(h) ==
  /\ pc[h] = "loop"
  /\ i[h] < RegistrySize
  /\ LET m == i[h] + 1
         j == req[h].analysisId
         result == simulateModelAnalysis(AI_MODELS[m], req[h].fileType, rnd[m].ai, rnd[m].k)
     IN /\ results' = [results EXCEPT ![h] = Append(@, result)]
        /\ \/ /\ Exists(j)
              /\ analysis_results' = analysis_results \cup {ResultRow(h, j, m, result)}
              /\ faults' = faults
           \/ /\ ~Exists(j)
              /\ UNCHANGED <<analysis_results, faults>>
           \/ /\ Exists(j)
              /\ CanFail
              /\ faults' = faults + 1
              /\ analysis_results' = analysis_results
  /\ i' = [i EXCEPT ![h] = @ + 1]
  /\ UNCHANGED <<analyses, rnd, pc, req, response, viewVars, aggVars, appVars>>

\* Lines 176-189: an error raised by a model run inside the loop lands in
\* the catch block, the only handler of the try of lines 102-175; it
\* answers 500 and makes no store call.  (simulateModelAnalysis itself has
\* no failing path; the step is what the handler does with a model runner
\* that raises.)
TaskThrows(h) ==
  /\ pc[h] = "loop"
  /\ i[h] < RegistrySize
  /\ pc' = [pc EXCEPT ![h] = "done"]
  /\ response' = [response EXCEPT ![h] = [status |-> 500, error |-> "Analysis failed"]]
  /\ UNCHANGED <<storeVars, req, i, results, viewVars, aggVars, appVars>>

\* Variant of Complete: the completed update is issued from inside the
\* loop, as soon as one result is in, instead of after the loop.
Complete_insideLoop(h) ==
  /\ pc[h] = "loop"
  /\ i[h] >= 1
  /\ analyses' = UpdateStatus(req[h].analysisId, "completed", Timestamp(h))
  /\ IF i[h] = RegistrySize
       THEN /\ pc' = [pc EXCEPT ![h] = "done"]
            /\ response' = [response EXCEPT ![h] =
                              [status |-> 200, success |-> TRUE,
                               analysisId |-> req[h].analysisId,
                               summary |-> Summary(results[h]),
                               results |-> results[h]]]
       ELSE UNCHANGED <<pc, response>>
  /\ UNCHANGED <<analysis_results, faults, rnd, req, i, results, viewVars, aggVars, appVars>>

\* Lines 143-175: mark the job completed (the returned error is not
\* inspected) and answer 200 with the summary of the local results.
Complete(h) ==
  /\ pc[h] = "loop"
  /\ i[h] = RegistrySize
  /\ \/ /\ analyses' = UpdateStatus(req[h].analysisId, "completed", Timestamp(h))
        /\ faults' = faults
     \/ /\ CanFail
        /\ faults' = faults + 1
        /\ analyses' = analyses
  /\ pc' = [pc EXCEPT ![h] = "done"]
  /\ response' = [response EXCEPT ![h] =
                    [status |-> 200, success |-> TRUE,
                     analysisId |-> req[h].analysisId,
                     summary |-> Summary(results[h]),
                     results |-> results[h]]]
  /\ UNCHANGED <<analysis_results, rnd, req, i, results, viewVars, aggVars, appVars>>

\* ------------------------------------------ UploadSection.handleAnalyze
\* gen_random_uuid() (migration line 35): the id of a new job is one no
\* row has and neither a request nor the view has named before.
Fresh(j) ==
  /\ ~Exists(j)
  /\ \A h \in Invocations : pc[h] # "idle" => req[h].analysisId # j
  /\ viewId # j

\* Variant of handleAnalyze: the client awaits the answer of
\* analyze-content before it calls onAnalysisStart, so the id is handed
\* over when the execution has run.
handleAnalyze_awaitsFetch(j) ==
  /\ Fresh(j)
  /\ \A k \in JobIds : k < j => ~Fresh(k)
  /\ analyses' = [analyses EXCEPT ![j] =
                    [id |-> j, status |-> "completed", completed_at |-> Timestamp(1)]]
  /\ analysis_results' = analysis_results \cup
       { ResultRow(1, j, m, simulateModelAnalysis(AI_MODELS[m], "image", rnd[m].ai, rnd[m].k)) :
           m \in 1..RegistrySize }
  /\ viewId' = j
  /\ UNCHANGED <<faults, rnd, handlerVars, poll, analysis, viewResults, isLoading, aggVars, appVars>>

\* Lines 75-87 and 105: insert the job row in status pending; on success
\* the new id is handed to onAnalysisStart, on error nothing is created.
\* The store generates the id: the lowest fresh one.
handleAnalyze(j) ==
  /\ Fresh(j)
  /\ \A k \in JobIds : k < j => ~Fresh(k)
  /\ \/ /\ analyses' = [analyses EXCEPT ![j] = [id |-> j, status |-> "pending", completed_at |-> NULL]]
        /\ viewId' = j
        /\ faults' = faults
     \/ /\ CanFail
        /\ faults' = faults + 1
        /\ UNCHANGED <<analyses, viewId>>
  /\ UNCHANGED <<analysis_results, rnd, handlerVars, poll, analysis, viewResults,
                 isLoading, aggVars, appVars>>

\* ------------------------------------------------------- AnalysisView
\* The view is first shown for an id that no row of analyses has: the
\* upload component of part_002 hands the detection server's requestId to
\* onAnalysisStart (lines 93-95) without inserting a job.
onAnalysisStart(j) ==
  /\ viewId = NoId
  /\ Fresh(j)
  /\ viewId' = j
  /\ UNCHANGED <<storeVars, handlerVars, poll, analysis, viewResults, isLoading, aggVars, appVars>>

\* Task completions of job j so far: loop iterations finished by the
\* invocations that work on j.
TaskCompletions(j) ==
  LET on == { h \in Invocations : pc[h] # "idle" /\ ~MissingFields(req[h]) /\ req[h].analysisId = j }
      RECURSIVE Sum(_)
      Sum(S) == IF S = {} THEN 0
                ELSE LET h == CHOOSE x \in S : TRUE IN i[h] + Sum(S \ {h})
  IN Sum(on)

\* loadAnalysis lines 22-29: read the job row; when there is one, store it
\* and go on to read the results; when there is none (maybeSingle gives
\* null) nothing is stored.
LoadJob ==
  /\ viewId # NoId
  /\ poll.pc = "idle"
  /\ IF Exists(viewId)
       THEN /\ analysis' = analyses[viewId]
            /\ poll' = [pc |-> "job_read", id |-> viewId]
       ELSE /\ analysis' = analysis
            /\ poll' = [pc |-> "no_row", id |-> viewId]
  /\ UNCHANGED <<storeVars, handlerVars, viewId, viewResults, isLoading, aggVars, appVars>>

\* loadAnalysis lines 31-41: read the result rows of the same id, store
\* them and leave the loading state.
LoadResults ==
  /\ poll.pc = "job_read"
  /\ viewResults' = ResultsOf(poll.id)
  /\ isLoading' = FALSE
  /\ poll' = NoPoll
  /\ UNCHANGED <<storeVars, handlerVars, viewId, analysis, aggVars, appVars>>

\* loadAnalysis line 29 with analysisData null: the call ends; no state of
\* the view is set, isLoading included.
LoadNotFound ==
  /\ poll.pc = "no_row"
  /\ poll' = NoPoll
  /\ UNCHANGED <<storeVars, handlerVars, viewId, analysis, viewResults, isLoading, aggVars, appVars>>

\* The steps of the system when the jobs created are `jobs` and the
\* invocations served are `invs`, as long as no model run raises.
Serve(jobs, invs) ==
  \/ \E h \in invs, r \in Requests(jobs) : Receive(h, r)
  \/ \E h \in invs : RunModel(h)
  \/ \E h \in invs : Complete(h)
  \/ \E j \in jobs : handleAnalyze(j)
  \/ \E j \in jobs : onAnalysisStart(j)
  \/ LoadJob
  \/ LoadResults
  \/ LoadNotFound

\* All steps: a model run may also raise.
Step(jobs, invs) ==
  \/ Serve(jobs, invs)
  \/ \E h \in invs : TaskThrows(h)

Next == Step(1..MaxJobs, 1..MaxInvocations)
WideNext == Step(1..WideJobs, 1..WideInvocations)
NoThrowNext == Serve(1..MaxJobs, 1..MaxInvocations)

\* One upload and one invocation, with the polling view.
Spec == Init /\ [][Next]_vars

\* Several jobs and several invocations, concurrent or one after another.
WideSpec == Init /\ [][WideNext]_vars

\* The body handleAnalyze posts for job j (part_001 lines 95-103).
JobRequest(j) == [analysisId |-> j, fileUrl |-> "blob:1", fileType |-> "image"]

\* The executions alone: uploads, and invocations with the body the
\* client posts, none of which raises.  These are the steps that write to
\* the store.
Execute(jobs, invs) ==
  \/ \E j \in jobs : handleAnalyze(j)
  \/ \E h \in invs, j \in jobs : Receive(h, JobRequest(j))
  \/ \E h \in invs : RunModel(h)
  \/ \E h \in invs : Complete(h)

ExecNext == Execute(1..WideJobs, 1..WideInvocations)

\* Several jobs executed by several invocations, concurrently or one
\* after another.
ExecSpec == Init /\ [][ExecNext]_vars

\* ------------------------------------------------- aggregator harness
\* results.push(result) for the next registry entry (cyclically), with
\* either verdict and a confidence draw.
AggPush(rndAi, k) ==
  /\ Len(aggIn) < MaxLen
  /\ aggIn' = Append(aggIn,
       simulateModelAnalysis(AI_MODELS[(Len(aggIn) % RegistrySize) + 1], "image", rndAi, k))
  /\ aggOut' = << >>
  /\ UNCHANGED <<storeVars, handlerVars, viewVars, appVars>>

\* The rows the view reads back for a list of results, in insertion order.
RowsOf(rs) == [k \in DOMAIN rs |-> ResultRow(1, 1, ((k - 1) % RegistrySize) + 1, rs[k])]

\* The summary of the handler and the verdict of the view over the list.
AggCompute ==
  /\ aggOut = << >>
  /\ aggOut' = << Summary(aggIn), getOverallVerdict(RowsOf(aggIn)) >>
  /\ UNCHANGED <<storeVars, handlerVars, viewVars, aggIn, appVars>>

AggNext ==
  \/ \E rndAi \in BOOLEAN, k \in ConfidenceDraws : AggPush(rndAi, k)
  \/ AggCompute

AggSpec == Init /\ [][AggNext]_vars

\* The handler, once started, keeps running: the runtime resumes it after
\* every await.  No model run raises; store calls may still return an
\* error.
FairSpec ==
  /\ Init /\ [][NoThrowNext]_vars
  /\ \A h \in 1..MaxInvocations : WF_vars(RunModel(h)) /\ WF_vars(Complete(h))

\* ------------------------------------------------------------ App.tsx
\* parseInt(head, 16) % 10_000 for a list of hex digits.  The value of an
\* eight digit head takes 32 bits, more than the integers of the model
\* checker hold, so the remainder is taken along the digits; the result
\* is that of the remainder of the whole value.
RECURSIVE ParseHexMod(_, _)
ParseHexMod(digits, acc) ==
  IF digits = << >> THEN acc
  ELSE ParseHexMod(Tail(digits), (acc * 16 + Head(digits)) % 10000)

\* Variant of scoreFromHash: the remainder is scaled by 0.95, not 0.9.
scoreFromHash_scaled95(hashHex) ==
  LET head == SubSeq(hashHex, 1, IF Len(hashHex) < HeadLen THEN Len(hashHex) ELSE HeadLen)
  IN IF head = << >> THEN NaN
     ELSE Number(50000 + ParseHexMod(head, 0) * 95)

\* scoreFromHash (lines 44-49), in millionths: 0.05 + (asInt % 10_000) /
\* 10_000 * 0.9.  parseInt of an empty head is NaN.
scoreFromHash(hashHex) ==
  LET head == SubSeq(hashHex, 1, IF Len(hashHex) < HeadLen THEN Len(hashHex) ELSE HeadLen)
  IN IF head = << >> THEN NaN
     ELSE Number(50000 + ParseHexMod(head, 0) * 90)

\* labelFromScore (lines 51-55); every comparison with NaN is false.
labelFromScore(sc) ==
  IF ~sc.nan /\ sc.v >= 700000 THEN "Likely AI"
  ELSE IF ~sc.nan /\ sc.v <= 350000 THEN "Likely Real"
  ELSE "Unclear"

\* sha256Hex(file): the digest of the content of the file, one per
\* content; MaxHashLen digits of it are kept.
FileHash(f) == [n \in 1..MaxHashLen |-> (f.id * n) % 16]

\* The memo `kind` (lines 471-476); the files that get past
\* validateAndSet are image or audio files.
kind(f) == IF f.type \in {"image", "audio"} THEN f.type ELSE Missing

\* resetAll (lines 486-496).
resetAll ==
  /\ appStatus' = "idle"
  /\ appErrorMsg' = Missing
  /\ appAnalysis' = NoAnalysis
  /\ appFile' = NoFile
  /\ UNCHANGED <<storeVars, handlerVars, viewVars, aggVars, runs, hashIn, hashOut>>

\* validateAndSet (lines 498-530): a file of a type that is not accepted
\* raises the error state and is not selected; an accepted one replaces
\* the selection and clears the analysis.
validateAndSet(f) ==
  /\ IF kind(f) = Missing
       THEN /\ appErrorMsg' = (IF f.type = "video"
                                 THEN "Video is disabled. Upload an image or audio file."
                                 ELSE "Unsupported format. Please upload an image or audio file.")
            /\ appStatus' = "error"
            /\ UNCHANGED <<appAnalysis, appFile>>
       ELSE /\ appErrorMsg' = Missing
            /\ appStatus' = "idle"
            /\ appAnalysis' = NoAnalysis
            /\ appFile' = f
  /\ UNCHANGED <<storeVars, handlerVars, viewVars, aggVars, runs, hashIn, hashOut>>

\* analyze, lines 532-540, up to the await: the button is disabled while
\* status is analyzing (line 866); the call keeps the file of the render
\* it was started from.  Calls take the slots in order.
analyze(r) ==
  /\ runs[r].pc = "idle"
  /\ \A q \in Runs : q < r => runs[q].pc # "idle"
  /\ appFile # NoFile /\ kind(appFile) # Missing
  /\ appStatus # "analyzing"
  /\ appStatus' = "analyzing"
  /\ appErrorMsg' = Missing
  /\ runs' = [runs EXCEPT ![r] = [pc |-> "hashing", file |-> appFile]]
  /\ UNCHANGED <<storeVars, handlerVars, viewVars, aggVars, appFile, appAnalysis, hashIn, hashOut>>

\* analyze, lines 541-556: the hash is there; the result is computed from
\* the file of the call and set, and the animation is started.
analyzeHashed(r) ==
  /\ runs[r].pc = "hashing"
  /\ appAnalysis' =
       LET hashHex == FileHash(runs[r].file)
           sc == scoreFromHash(hashHex)
       IN [kind |-> kind(runs[r].file), aiScore |-> sc.v,
           label |-> labelFromScore(sc), hashHex |-> hashHex]
  /\ runs' = [runs EXCEPT ![r].pc = "ticking"]
  /\ UNCHANGED <<storeVars, handlerVars, viewVars, aggVars, appFile, appStatus, appErrorMsg,
                 hashIn, hashOut>>

\* analyze, lines 571-575: reading or hashing the file fails.
analyzeFailed(r) ==
  /\ runs[r].pc = "hashing"
  /\ appStatus' = "error"
  /\ appErrorMsg' = "Could not analyze this file in the browser."
  /\ runs' = [runs EXCEPT ![r].pc = "done"]
  /\ UNCHANGED <<storeVars, handlerVars, viewVars, aggVars, appFile, appAnalysis, hashIn, hashOut>>

\* analyze, lines 558-569: the last animation frame (p = 1) sets status
\* done.  The frames before it set only animatedScore, which is not part
\* of the state kept here.
lastTick(r) ==
  /\ runs[r].pc = "ticking"
  /\ appStatus' = "done"
  /\ runs' = [runs EXCEPT ![r].pc = "done"]
  /\ UNCHANGED <<storeVars, handlerVars, viewVars, aggVars, appFile, appAnalysis, appErrorMsg,
                 hashIn, hashOut>>

AppNext ==
  \/ resetAll
  \/ \E f \in Files : validateAndSet(f)
  \/ \E r \in Runs : analyze(r)
  \/ \E r \in Runs : analyzeHashed(r)
  \/ \E r \in Runs : analyzeFailed(r)
  \/ \E r \in Runs : lastTick(r)

\* The App component on its own: the user picks files, resets, and starts
\* analyses whose steps interleave with both.
AppSpec == Init /\ [][AppNext]_vars

\* --------------------------------------------- scoreFromHash harness
\* The next hex digit of a hash.
HashPush(d) ==
  /\ Len(hashIn) < MaxHashLen
  /\ hashIn' = Append(hashIn, d)
  /\ hashOut' = << >>
  /\ UNCHANGED <<storeVars, handlerVars, viewVars, aggVars, appFile, appStatus, appErrorMsg,
                 appAnalysis, runs>>

\* The score and the label of a hash that has its head: a digest is
\* longer than the head.
HashCompute ==
  /\ Len(hashIn) >= HeadLen
  /\ hashOut = << >>
  /\ hashOut' = << scoreFromHash(hashIn), labelFromScore(scoreFromHash(hashIn)) >>
  /\ UNCHANGED <<storeVars, handlerVars, viewVars, aggVars, appFile, appStatus, appErrorMsg,
                 appAnalysis, runs, hashIn>>

HashNext ==
  \/ \E d \in HexDigits : HashPush(d)
  \/ HashCompute

HashSpec == Init /\ [][HashNext]_vars

\* ================================================================ claims
Status(j) == analyses[j].status

\* C1: once the persisted status of a job is completed or failed, no step
\* of the system changes that status.
C1_TerminalStatusIsFinal ==
  [][\A j \in JobIds : Status(j) \in Terminal => analyses'[j].status = Status(j)]_vars

\* C2: in every reachable state, for every job, completed_at is set if and
\* only if the status is completed or failed.
C2_CompletedAtIffTerminal ==
  \A j \in JobIds :
    Exists(j) => ((analyses[j].completed_at # NULL) <=> (Status(j) \in Terminal))

\* C3: whenever the persisted status of a job is completed, the job has as
\* many persisted result rows as the registry has entries.
C3_CompletedHasAllResults ==
  \A j \in JobIds :
    Status(j) = "completed" => Cardinality(ResultsOf(j)) = RegistrySize

\* C4: a job never has more result rows than the registry has entries, and
\* no registry entry has more than one row for the job.
C4_AtMostOneResultPerEntry ==
  \A j \in JobIds :
    /\ Cardinality(ResultsOf(j)) <= RegistrySize
    /\ \A r1, r2 \in ResultsOf(j) : r1.model = r2.model => r1 = r2

\* C5: a job whose execution has started (status processing) eventually
\* has status completed or failed.
C5_StartedJobTerminates ==
  \A j \in JobIds : (Status(j) = "processing") ~> (Status(j) \in Terminal)

C7_SnapshotShowsKResults ==
  \A j \in JobIds :
    ( /\ poll.pc = "idle"
      /\ analysis.id = j
      /\ analysis = analyses[j]
      /\ viewResults = ResultsOf(j)
      /\ analysis.status = "processing"
      /\ TaskCompletions(j) < RegistrySize )
    => Cardinality(viewResults) = TaskCompletions(j)

\* C8: a snapshot whose job row shows status completed holds every result
\* row the completing execution appends, now or later: all of them were
\* in the store before the status became completed, and the view reads
\* the job row first.
C8_CompletedSnapshotHasAllResults ==
  (poll.pc = "idle" /\ analysis.status = "completed")
    => { r \in analysis_results :
           r.analysis_id = analysis.id /\ r.by = analysis.completed_at }
       \subseteq viewResults

\* C8 witness: the view holds a snapshot of a completed job with a row of
\* every registry entry, all appended by the completing execution.
C8_Witness ==
  /\ poll.pc = "idle"
  /\ analysis.status = "completed"
  /\ Cardinality({ r \in viewResults : r.by = analysis.completed_at }) = RegistrySize

\* C9: a request without fileType is answered 400 'Missing required
\* fields' and the step leaves both tables as they were; the invocation is
\* finished and makes no later store call.
C9_MissingFileTypeRejected ==
  [][\A h \in Invocations :
       (pc[h] = "idle" /\ pc'[h] # "idle" /\ req'[h].fileType = Missing)
         => /\ pc'[h] = "done"
            /\ response'[h].status = 400
            /\ response'[h].error = "Missing required fields"
            /\ analyses' = analyses
            /\ analysis_results' = analysis_results]_vars

\* C9 witness: a request that lacks only fileType, for a job that exists
\* and is pending, has been answered 400.
C9_Witness ==
  \E h \in Invocations :
    /\ pc[h] = "done"
    /\ req[h].fileType = Missing
    /\ req[h].analysisId # NoId
    /\ req[h].fileUrl # Missing
    /\ response[h].status = 400
    /\ Status(req[h].analysisId) = "pending"

\* Number of flagged results of a list, counted element by element.
RECURSIVE Flagged(_)
Flagged(rs) ==
  IF rs = << >> THEN 0
  ELSE (IF Head(rs).isAiGenerated THEN 1 ELSE 0) + Flagged(Tail(rs))

C11_SummaryCounts ==
  aggOut # << >> =>
    /\ aggOut[1].totalModels = Len(aggIn)
    /\ aggOut[1].aiGeneratedCount = Flagged(aggIn)
    /\ aggOut[1].authenticCount = aggOut[1].totalModels - aggOut[1].aiGeneratedCount
    /\ aggOut[1].aiGeneratedCount + aggOut[1].authenticCount = aggOut[1].totalModels

\* C11 witness: the summary of one result per registry entry, three of
\* them flagged, has been computed.
C11_Witness ==
  /\ aggOut # << >>
  /\ Len(aggIn) = RegistrySize
  /\ Flagged(aggIn) = 3
  /\ aggOut[1].authenticCount = 1

\* A JavaScript number that is a value within [0, 100] (in hundredths).
IsPercent(x) == ~x.nan /\ 0 <= x.v /\ x.v <= 100 * 100

\* The mean num / den of the view lies within [0, 100] (in hundredths).
FractionIsPercent(f) == f.den > 0 /\ 0 <= f.num /\ f.num <= 100 * 100 * f.den

\* C12 as stated: for every list of results, the empty one included, the
\* aggregated averageConfidence is a number within [0, 100], in the
\* summary of the handler and in the verdict of the view.
C12_AverageConfidenceIsPercent ==
  aggOut # << >> =>
    /\ IsPercent(aggOut[1].averageConfidence)
    /\ aggOut[2].verdict # "null"
    /\ FractionIsPercent(aggOut[2].confidence)

\* C12 amended: for every non-empty list of results the aggregated
\* averageConfidence is a number within [0, 100], in the summary of the
\* handler and in the verdict of the view; for the empty list the
\* handler's expression is NaN and the view computes no verdict.
C12_NonEmptyAverageIsPercent ==
  aggOut # << >> =>
    IF Len(aggIn) = 0
      THEN /\ aggOut[1].averageConfidence = NaN
           /\ aggOut[2].verdict = "null"
      ELSE /\ IsPercent(aggOut[1].averageConfidence)
           /\ aggOut[2].verdict # "null"
           /\ FractionIsPercent(aggOut[2].confidence)

\* C12 witness: the mean of a list of several results that all have the
\* highest confidence has been computed: it is exactly 100.
C12_Witness ==
  /\ aggOut # << >>
  /\ Len(aggIn) >= 2
  /\ \A n \in DOMAIN aggIn : aggIn[n].confidenceScore = 100 * 100
  /\ aggOut[1].averageConfidence = Number(100 * 100)

\* C13: every result the model runner produces, and every result row
\* persisted, has a confidence within [0, 100]; the runner's values lie
\* within [60, 100] (two decimals: whole hundredths).
C13_ConfidenceInRange ==
  LET InRange(c) == /\ 0 <= c /\ c <= 100 * 100
                    /\ 60 * 100 <= c
  IN /\ \A h \in Invocations : \A n \in DOMAIN results[h] :
          InRange(results[h][n].confidenceScore)
     /\ \A r \in analysis_results : InRange(r.confidence_score)
     /\ \A n \in DOMAIN aggIn : InRange(aggIn[n].confidenceScore)

\* C13 witness: rows with the lowest (60) and the highest (100) confidence
\* the runner can produce have been persisted.
C13_Witness ==
  /\ \E r \in analysis_results : r.confidence_score = 60 * 100
  /\ \E r \in analysis_results : r.confidence_score = 100 * 100

\* The detectionType of every result produced so far and the
\* detection_type of every row persisted so far.
DetectionTypes ==
  { results[h][n].detectionType : <<h, n>> \in { hn \in Invocations \X (1..RegistrySize) :
                                                  hn[2] \in DOMAIN results[hn[1]] } }
  \cup { r.detection_type : r \in analysis_results }
  \cup { aggIn[n].detectionType : n \in DOMAIN aggIn }

\* C14 as stated: the detectionType of every result is one of deepfake,
\* synthetic, authentic, uncertain.
C14_DetectionTypeInSpecEnum ==
  DetectionTypes \subseteq {"deepfake", "synthetic", "authentic", "uncertain"}

\* C14 amended: the detectionType of every result is one of deepfake,
\* ai_generated, authentic, uncertain, the values the CHECK of the
\* detection_type column admits; the runner yields only the first three.
C14_DetectionTypeInSchemaEnum ==
  /\ DetectionTypes \subseteq {"deepfake", "ai_generated", "authentic", "uncertain"}
  /\ "uncertain" \notin DetectionTypes

\* C14 witness: a flagged result of a model other than the deepfake one
\* has been persisted, with detection_type ai_generated.
C14_Witness ==
  \E r \in analysis_results :
    /\ r.is_ai_generated
    /\ AI_MODELS[r.model].specialty # "deepfake"
    /\ r.detection_type = "ai_generated"

\* C15: once a job is in a terminal status nothing about it is mutated,
\* whatever operations follow: every later read of the job row and of its
\* result rows returns what the first one returned.
C15_TerminalJobIsFrozen ==
  [][\A j \in JobIds :
       Status(j) \in Terminal
         => /\ analyses'[j] = analyses[j]
            /\ { r \in analysis_results' : r.analysis_id = j } = ResultsOf(j)]_vars

\* C16: a store write that fails is never silently dropped.  When an
\* invocation for an existing job has answered 200, either every write it
\* issued took effect (a row of its own for every registry entry, and the
\* job completed by it), or the job has been moved to failed.
C16_FailedWriteNotDropped ==
  \A h \in Invocations :
    (pc[h] = "done" /\ response[h].status = 200 /\ Exists(req[h].analysisId))
      => LET j == req[h].analysisId
         IN \/ Status(j) = "failed"
            \/ /\ \A m \in 1..RegistrySize :
                     \E r \in ResultsOf(j) : r.by = h /\ r.model = m
               /\ Status(j) = "completed"
               /\ analyses[j].completed_at = Timestamp(h)

\* C17: the only status changes of a job are its creation in pending,
\* pending -> processing, processing -> completed and processing ->
\* failed.
C17_OnlyLegalStatusChanges ==
  [][\A j \in JobIds :
       analyses'[j].status # Status(j)
         => <<Status(j), analyses'[j].status>> \in
              { <<"none", "pending">>, <<"pending", "processing">>,
                <<"processing", "completed">>, <<"processing", "failed">> }]_vars

\* C18: executions of distinct jobs never interfere.  Every step of an
\* invocation leaves the row (status, completed_at) and the result rows
\* of every job other than the one its request names as they were.
C18_OtherJobsUntouched ==
  [][\A h \in Invocations :
       (pc'[h] # pc[h] \/ i'[h] # i[h])
         => \A b \in JobIds \ {req'[h].analysisId} :
              /\ analyses'[b] = analyses[b]
              /\ { r \in analysis_results' : r.analysis_id = b } = ResultsOf(b)]_vars

\* C18 witness: two invocations have run at the same time on two
\* different jobs: job 1 is completed with exactly the rows of its own
\* invocation while the invocation of job 2 is still in its loop, with
\* rows of its own only.
C18_Witness ==
  \E h1, h2 \in Invocations :
    /\ h1 # h2
    /\ req[h1].analysisId = 1 /\ req[h2].analysisId = 2
    /\ pc[h1] = "done" /\ pc[h2] = "loop" /\ i[h2] >= 2
    /\ analyses[1] = [id |-> 1, status |-> "completed", completed_at |-> Timestamp(h1)]
    /\ Status(2) = "processing"
    /\ Cardinality(ResultsOf(1)) = RegistrySize
    /\ \A r \in ResultsOf(1) : r.by = h1
    /\ ResultsOf(2) # {}
    /\ \A r \in ResultsOf(2) : r.by = h2

\* C19: the step that creates a job persists it in status pending and
\* hands its id to the caller (onAnalysisStart) at once: at that moment
\* the job has no result row and no invocation of analyze-content has
\* taken up its request, so the caller is not held until any task
\* completes.
C19_IdHandedOverBeforeExecution ==
  [][\A j \in JobIds :
       (~Exists(j) /\ analyses'[j].status # "none")
         => /\ analyses'[j] = [id |-> j, status |-> "pending", completed_at |-> NULL]
            /\ viewId' = j
            /\ { r \in analysis_results' : r.analysis_id = j } = {}
            /\ \A h \in Invocations : pc'[h] # "idle" => req'[h].analysisId # j]_vars

\* C19 witness: the caller holds the id of a job that is pending, has no
\* result row and whose execution has not begun.
C19_Witness ==
  /\ viewId # NoId
  /\ Status(viewId) = "pending"
  /\ ResultsOf(viewId) = {}
  /\ \A h \in Invocations : pc[h] = "idle"

\* C20: when a load of the view for an id that no job has comes back, the
\* view shows an outcome other than the loading state it shows while the
\* first load of an existing job is under way.
C20_UnknownJobLeavesLoading ==
  [][(poll.pc = "no_row" /\ poll'.pc = "idle") => ~isLoading']_vars

\* C21: completed_at of a job is written at most once, and only by the
\* step that moves the job into completed or failed: a step that changes
\* it finds it NULL on a job that is not terminal and leaves the job
\* terminal.
C21_CompletedAtWrittenOnce ==
  [][\A j \in JobIds :
       analyses'[j].completed_at # analyses[j].completed_at
         => /\ analyses[j].completed_at = NULL
            /\ Status(j) \notin Terminal
            /\ analyses'[j].status \in Terminal]_vars

\* C22: the result rows are append-only.  No step removes or changes a
\* persisted row; a step that adds rows adds exactly one, the row of the
\* model run an invocation has just finished, for the job its request
\* names.  So the result count of a job never decreases.
C22_ResultsAppendOnly ==
  [][/\ analysis_results \subseteq analysis_results'
     /\ \A j \in JobIds :
          Cardinality({ r \in analysis_results' : r.analysis_id = j })
            >= Cardinality(ResultsOf(j))
     /\ analysis_results' # analysis_results
          => \E h \in Invocations :
               /\ i'[h] = i[h] + 1
               /\ analysis_results' \ analysis_results =
                    { ResultRow(h, req[h].analysisId, i'[h], results'[h][i'[h]]) }]_vars

\* C22 witness: a job holds the rows of two invocations side by side, a
\* row of each for every registry entry.
C22_Witness ==
  \E j \in JobIds : \E h1, h2 \in Invocations :
    /\ h1 # h2
    /\ \A m \in 1..RegistrySize :
         /\ \E r \in ResultsOf(j) : r.by = h1 /\ r.model = m
         /\ \E r \in ResultsOf(j) : r.by = h2 /\ r.model = m

\* C23: for a job observed as completed, the summary an invocation has
\* returned agrees with the persisted rows the client reads:
\* summary.totalModels is the number of rows of the job, and
\* summary.overallVerdict is the flagged one exactly when the verdict the
\* polling view and the history view compute from those rows is.
C23_SummaryAgreesWithStore ==
  \A h \in Invocations :
    (pc[h] = "done" /\ response[h].status = 200 /\ Status(req[h].analysisId) = "completed")
      => LET rows == RowList(ResultsOf(req[h].analysisId))
             summary == response[h].summary
             flagged == summary.overallVerdict = "Likely AI Generated"
         IN /\ summary.totalModels = Len(rows)
            /\ flagged <=> getOverallVerdict(rows).verdict = "AI-Generated Content Detected"
            /\ ~getVerdict(rows).null
            /\ flagged <=> getVerdict(rows).isAiGenerated

\* C24: the transition to processing is persisted before any result is
\* appended: a job whose persisted status is pending has no result row.
C24_PendingJobHasNoResults ==
  \A j \in JobIds : Status(j) = "pending" => ResultsOf(j) = {}

\* C25: when an invocation with a well-formed body names an analysisId
\* that no job has, no job and no result row is created for that id, and
\* the invocation does not answer 200 success with a summary.
C25_UnknownJobNotReportedDone ==
  \A h \in Invocations :
    (pc[h] = "done" /\ ~MissingFields(req[h]) /\ ~Exists(req[h].analysisId))
      => /\ ResultsOf(req[h].analysisId) = {}
         /\ response[h].status # 200

\* The registry entry whose run produced the n-th result of the harness.
EntryOf(n) == AI_MODELS[((n - 1) % RegistrySize) + 1]

\* C26: every result of simulateModelAnalysis has a detectionType that
\* fits its verdict: authentic exactly when isAiGenerated is false, and
\* deepfake only for a flagged result of a registry entry whose specialty
\* is deepfake.
C26_DetectionTypeFitsVerdict ==
  \A n \in DOMAIN aggIn :
    /\ (aggIn[n].detectionType = "authentic") <=> ~aggIn[n].isAiGenerated
    /\ aggIn[n].detectionType = "deepfake"
         => aggIn[n].isAiGenerated /\ EntryOf(n).specialty = "deepfake"
    /\ aggIn[n].modelName = EntryOf(n).name

\* C26 witness: the entry whose specialty is authentic has produced a
\* flagged result, the deepfake entry a flagged one and an authentic one.
C26_Witness ==
  /\ \E n \in DOMAIN aggIn :
       EntryOf(n).specialty = "authentic" /\ aggIn[n].isAiGenerated
  /\ \E n \in DOMAIN aggIn :
       EntryOf(n).specialty = "deepfake" /\ aggIn[n].detectionType = "deepfake"
  /\ \E n \in DOMAIN aggIn :
       EntryOf(n).specialty = "deepfake" /\ aggIn[n].detectionType = "authentic"

\* C27: what the view displays belongs to the current analysisId and
\* never regresses: after every step, once the view is past its loading
\* state, the job shown and every result row shown are those of the
\* current analysisId, and while the analysisId stays the same the number
\* of rows shown does not decrease.
C27_ViewShowsCurrentJob ==
  [][/\ (viewId' # NoId /\ ~isLoading')
          => /\ analysis'.id = viewId'
             /\ \A r \in viewResults' : r.analysis_id = viewId'
     /\ viewId' = viewId
          => Cardinality(viewResults') >= Cardinality(viewResults)]_vars

\* C29: for every content of the store, results of jobs that are not
\* completed included, the counters of StatsView satisfy
\* 0 <= aiDetected <= totalAnalyses and authentic = totalAnalyses -
\* aiDetected >= 0.
C29_StatsCountersConsistent ==
  /\ 0 <= loadStats.aiDetected
  /\ loadStats.aiDetected <= loadStats.totalAnalyses
  /\ loadStats.authentic = loadStats.totalAnalyses - loadStats.aiDetected
  /\ loadStats.authentic >= 0

\* C28: whenever the App holds an analysis or its status is done, a file
\* is selected and the analysis was computed from that file (it carries
\* the hash of the selected file), whatever resetAll or validateAndSet
\* did while analyze was awaiting the hash or running its animation.
C28_AnalysisIsOfSelectedFile ==
  (appAnalysis # NoAnalysis \/ appStatus = "done")
    => /\ appFile # NoFile
       /\ appAnalysis # NoAnalysis
       /\ appAnalysis.hashHex = FileHash(appFile)

\* The value of a short list of hex digits (at most four: 16 bits).
RECURSIVE HexValue(_)
HexValue(digits) ==
  IF digits = << >> THEN 0
  ELSE HexValue(SubSeq(digits, 1, Len(digits) - 1)) * 16 + digits[Len(digits)]

\* h mod 10000 for the eight digit head h = hi * 16^4 + lo.
HeadMod(head) ==
  LET hi == HexValue(SubSeq(head, 1, 4))
      lo == HexValue(SubSeq(head, 5, 8))
  IN ((hi % 10000) * (65536 % 10000) + lo) % 10000

\* C30: scoreFromHash is a function of the head of the hash with values
\* in [0.05, 0.95]: for every hash with an eight digit head h the score
\* is 0.05 + ((h mod 10000) / 10000) * 0.9 (here in millionths), the
\* digits after the head do not matter, and computing score and label
\* again from the same hash gives the same score and label.
C30_ScoreFromHashInRange ==
  hashOut # << >> =>
    LET head == SubSeq(hashIn, 1, HeadLen)
    IN /\ hashOut[1] = Number(50000 + HeadMod(head) * 90)
       /\ 50000 <= hashOut[1].v /\ hashOut[1].v <= 950000
       /\ hashOut[1] = scoreFromHash(head)
       /\ hashOut = << scoreFromHash(hashIn), labelFromScore(scoreFromHash(hashIn)) >>
       /\ hashOut[2] \in {"Likely AI", "Unclear", "Likely Real"}

\* C30 witness: the score of a hash whose head is ffffffff (4294967295,
\* remainder 7295) and that has a digit after the head has been
\* computed: 0.70655, Likely AI.
C30_Witness ==
  /\ hashOut # << >>
  /\ Len(hashIn) > HeadLen
  /\ \A n \in 1..HeadLen : hashIn[n] = 15
  /\ hashOut[1] = Number(706550)
  /\ hashOut[2] = "Likely AI"

====
